---- MODULE Spec2Model ----
(***************************************************************************)
(* Model of src/game.py: the model gateway (call_gemini, call_local_llm,   *)
(* call_llm), the state extractor (initialize_game_state), the state       *)
(* reconciler (update_game_state) and the narration service                *)
(* (get_narrator_response), as operations on the module's globals          *)
(* (args.model) and on the world state their caller holds.                 *)
(*                                                                         *)
(* main() itself is not a driver of this model: its first statements call  *)
(* speak() (line 753), whose body uses the name `threading` (line 721),    *)
(* which the file never imports, so main() ends with a NameError before    *)
(* it loads or creates a world state.  The operations are therefore        *)
(* modelled as they behave when called, in the order main() would call     *)
(* them: a world state exists only once initialize_game_state returned.    *)
(* The blocks of main() (the start-up block, one iteration of the loop)    *)
(* are modelled the same way: as they behave when control reaches them     *)
(* with a state the operations can produce.                                *)
(***************************************************************************)
EXTENDS Integers, Sequences, FiniteSets, TLC

VARIABLES
    args_model,  \* args.model: "local" or "gemini" (lines 38-44, 304)
    game_state,  \* the world state the caller holds (main's game_state)
    call,        \* the last operation called: its inputs, gateway traffic and outcome
    DEBUG,       \* the global DEBUG (line 65, toggle_debug)
    main_last_response, \* the local last_response of main()
    snapshot,    \* the content of game_state.json, the file save_game_state writes
    last_saved,  \* history: the state the last completed write of the file was given
    selected_index \* the global selected_index (line 132)

vars == <<args_model, game_state, call, DEBUG, main_last_response, snapshot, last_saved,
         selected_index>>

\* what the gateway, the extractor and the reconciler leave alone
session_vars == <<DEBUG, main_last_response, snapshot, last_saved, selected_index>>

----------------------------------------------------------------------------
(* Bounds of the model *)

\* instants the backend may name in "date"/"time": 0..MaxClock
MaxClock == 1
\* instants per day: instant n is date n \div TimesPerDay, time n % TimesPerDay
TimesPerDay == 2

----------------------------------------------------------------------------
(* Python values *)

None == [t |-> "None"]
Unset == [t |-> "unset"]
PyStr(toks) == [t |-> "str", toks |-> toks]
PyInt(n) == [t |-> "int", v |-> n]
PyDict(d) == [t |-> "dict", d |-> d]

IsDict(v) == v.t = "dict"
IsStr(v) == v.t = "str"

\* dict.get(key, default) on a dict value
Get(v, key, default) == IF key \in DOMAIN v.d THEN v.d[key] ELSE default

----------------------------------------------------------------------------
(* Response texts, as token sequences.  LB and RB are the characters { and   *)
(* }; W is a run of prose without braces; NUM is the JSON number 42;         *)
(* Member(kv) is a well-formed run of "key": value members of a JSON object  *)
(* (nested braces of the values included), kv the keys and values it gives.  *)

LB == [k |-> "{"]
RB == [k |-> "}"]
W == [k |-> "prose"]
NUM == [k |-> "number"]
Member(kv) == [k |-> "member", kv |-> kv]

\* the values STATE_SPEC allows for gameStatus, and one it does not
StatusEnum == {"playing", "win", "lose"}
StatusVals == StatusEnum \cup {"banana"}

Instants == 0..MaxClock
DateOf(n) == n \div TimesPerDay
TimeOf(n) == n % TimesPerDay

StatusMember(s) == Member("gameStatus" :> s)
ClockMember(n) == Member(("date" :> DateOf(n)) @@ ("time" :> TimeOf(n)))
RestMember ==
    Member(("objective" :> "find the golden acorn")
        @@ ("playerCharacter" :>
               [name |-> "fox", beingType |-> "animal", location |-> "meadow",
                inventory |-> <<[name |-> "map", description |-> "old"]>>,
                statusEffects |-> <<>>,
                possibleActions |-> <<"look around", "dig">>])
        @@ ("characters" :> <<>>)
        @@ ("locations" :>
               <<[name |-> "meadow", explored |-> TRUE,
                  description |-> "quiet", adjacentLocations |-> <<>>]>>))

\* the same members, the player carrying two items of one name
DuplicateItemsMember ==
    Member([x \in DOMAIN RestMember.kv |->
               IF x = "playerCharacter"
               THEN [RestMember.kv[x] EXCEPT !.inventory =
                        <<[name |-> "map", description |-> "old"],
                          [name |-> "map", description |-> "new"]>>]
               ELSE RestMember.kv[x]])

Opt(S) == {<<>>} \cup {<<x>> : x \in S}

\* the member lists a backend may put between the braces of an object
MemberSeqs ==
    {s \o c \o r :
        s \in Opt({StatusMember(x) : x \in StatusVals}),
        c \in Opt({ClockMember(n) : n \in Instants}),
        r \in Opt({RestMember})}

ObjectText(ms) == <<LB>> \o ms \o <<RB>>

\* a complete state that satisfies STATE_SPEC, as text
FullObject(s, n) == ObjectText(<<StatusMember(s), ClockMember(n), RestMember>>)

\* what a backend may answer to a state prompt
StateTexts ==
    {ObjectText(ms) : ms \in MemberSeqs}
    \cup {<<W>> \o FullObject("playing", 0) \o <<W>>,          \* object in prose
          FullObject("win", 0) \o <<W>> \o ObjectText(<<>>),     \* two objects
          ObjectText(<<StatusMember("win"), StatusMember("lose")>>), \* key twice
          ObjectText(<<StatusMember("playing"), ClockMember(0),
                       DuplicateItemsMember>>),
          <<LB, W, RB>>,                                         \* braces, not JSON
          <<LB>> \o <<StatusMember("win")>>,                     \* cut off
          <<RB, LB>>,
          <<W>>,                                                 \* prose only
          <<NUM>>,                                               \* a JSON number
          <<>>}                                                  \* empty text

\* what a backend may answer to a scenario or narration prompt
ProseTexts == {<<W>>, <<>>}

----------------------------------------------------------------------------
(* re.search(r"({[\s\S]*})", text): the leftmost { that has a } after it,    *)
(* greedily up to the last } of the text.                                    *)

Min(S) == CHOOSE x \in S : \A y \in S : x <= y
Max(S) == CHOOSE x \in S : \A y \in S : x >= y

Positions(text, tok) == {i \in 1..Len(text) : text[i] = tok}

re_search(text) ==
    LET starts == Positions(text, LB)
        ends == Positions(text, RB)
    IN  IF \E i \in starts, j \in ends : i < j
        THEN [matched |-> TRUE, group |-> SubSeq(text, Min(starts), Max(ends))]
        ELSE [matched |-> FALSE, group |-> <<>>]

(* json.loads(text): a dict for { members }, later members overriding       *)
(* earlier ones; the number for a lone number; JSONDecodeError otherwise.    *)

RECURSIVE loads_members(_)
loads_members(ms) ==
    IF ms = <<>> THEN <<>>
    ELSE ms[Len(ms)].kv @@ loads_members(SubSeq(ms, 1, Len(ms) - 1))

json_loads(text) ==
    IF Len(text) >= 2 /\ text[1] = LB /\ text[Len(text)] = RB
       /\ \A i \in 2..(Len(text) - 1) : text[i].k = "member"
    THEN [ok |-> TRUE, val |-> PyDict(loads_members(SubSeq(text, 2, Len(text) - 1)))]
    ELSE IF text = <<NUM>>
    THEN [ok |-> TRUE, val |-> PyInt(42)]
    ELSE [ok |-> FALSE, val |-> None]

----------------------------------------------------------------------------
(* The model gateway.  What a backend does with one request is the           *)
(* environment's choice: env = [gemini |-> kind, local |-> kind, text |-> t],*)
(* text being the text of whichever backend answers.                         *)

\* generate_content returns text / raises / returns a response without text
GeminiKinds == {"ok", "exception", "no_text"}
GeminiFailKinds == GeminiKinds \ {"ok"}

\* the POST returns 200 with {choices:[{message:{content:text}}]} ("ok"), the
\* same with content null, fails in transport, times out, returns 4xx/5xx,
\* returns 200 with JSON of another shape, or returns 200 with a body that
\* is not JSON (requests >= 2.27 raises a RequestException for it, older
\* versions a plain ValueError)
LocalFailKinds ==
    {"null_content", "connection_error", "timeout", "http_error", "bad_shape",
     "not_json_requests_new", "not_json_requests_old"}
LocalKinds == {"ok"} \cup LocalFailKinds

\* the outcomes the except clause of call_local_llm catches
RequestExceptions ==
    {"connection_error", "timeout", "http_error", "not_json_requests_new"}

NoRequest == "not contacted"

Envs(model, texts) ==
    IF model = "gemini"
    THEN {[gemini |-> "ok", local |-> NoRequest, text |-> t] : t \in texts}
         \cup {[gemini |-> g, local |-> "ok", text |-> t] :
                  g \in GeminiFailKinds, t \in texts}
         \cup {[gemini |-> g, local |-> l, text |-> <<>>] :
                  g \in GeminiFailKinds, l \in LocalFailKinds}
    ELSE {[gemini |-> NoRequest, local |-> "ok", text |-> t] : t \in texts}
         \cup {[gemini |-> NoRequest, local |-> l, text |-> <<>>] :
                  l \in LocalFailKinds}

\* call_gemini: any exception is caught, reported and turned into None
call_gemini(env) ==
    CASE env.gemini = "ok" ->
            [ret |-> PyStr(env.text), exc |-> "none", printed |-> {}]
      [] env.gemini = "no_text" ->
            [ret |-> None, exc |-> "none", printed |-> {}]
      [] OTHER ->
            [ret |-> None, exc |-> "none",
             printed |-> {"Error calling Gemini API"}]

\* call_local_llm: only requests.exceptions.RequestException is caught
call_local_llm(env) ==
    CASE env.local = "ok" ->
            [ret |-> PyStr(env.text), exc |-> "none", printed |-> {}]
      [] env.local = "null_content" ->
            [ret |-> None, exc |-> "none", printed |-> {}]
      [] env.local \in RequestExceptions ->
            [ret |-> None, exc |-> "none",
             printed |-> {"Error calling LM Studio API"}]
      [] env.local = "bad_shape" ->
            [ret |-> None, exc |-> "KeyError", printed |-> {}]
      [] OTHER ->
            [ret |-> None, exc |-> "ValueError", printed |-> {}]

\* a variant that asks the remote backend a second time before it falls back
call_llm_asks_twice(model, env) ==
    IF model = "gemini"
    THEN LET g == call_gemini(env)
         IN  IF g.ret = None
             THEN LET l == call_local_llm(env)
                  IN  [ret |-> l.ret, exc |-> l.exc, model |-> "local",
                       requests |-> <<[backend |-> "gemini", kind |-> env.gemini],
                                      [backend |-> "gemini", kind |-> env.gemini],
                                      [backend |-> "local", kind |-> env.local]>>,
                       printed |-> g.printed \cup l.printed]
             ELSE [ret |-> g.ret, exc |-> "none", model |-> model,
                   requests |-> <<[backend |-> "gemini", kind |-> env.gemini]>>,
                   printed |-> g.printed]
    ELSE LET l == call_local_llm(env)
         IN  [ret |-> l.ret, exc |-> l.exc, model |-> model,
              requests |-> <<[backend |-> "local", kind |-> env.local]>>,
              printed |-> l.printed]

\* call_llm: the remote backend when args.model is "gemini"; on its failure
\* args.model becomes "local" and the local backend answers the same call
call_llm(model, env) ==
    IF model = "gemini"
    THEN LET g == call_gemini(env)
         IN  IF g.ret = None
             THEN LET l == call_local_llm(env)
                  IN  [ret |-> l.ret, exc |-> l.exc, model |-> "local",
                       requests |-> <<[backend |-> "gemini", kind |-> env.gemini],
                                      [backend |-> "local", kind |-> env.local]>>,
                       printed |-> g.printed
                           \cup {"Gemini API failed, falling back to local model."}
                           \cup l.printed]
             ELSE [ret |-> g.ret, exc |-> "none", model |-> model,
                   requests |-> <<[backend |-> "gemini", kind |-> env.gemini]>>,
                   printed |-> g.printed]
    ELSE LET l == call_local_llm(env)
         IN  [ret |-> l.ret, exc |-> l.exc, model |-> model,
              requests |-> <<[backend |-> "local", kind |-> env.local]>>,
              printed |-> l.printed]

----------------------------------------------------------------------------
(* The state extractor *)

\* what an operation hands back: its return value or the exception that
\* left it, args.model afterwards, and its gateway traffic
Outcome(ret, exc, parse, calls) ==
    [ret |-> ret, exc |-> exc, parse |-> parse,
     model |-> calls[Len(calls)].model,
     llm_calls |-> Len(calls),
     json_response |-> calls[Len(calls)].ret,
     requests |-> IF Len(calls) = 1 THEN calls[1].requests
                  ELSE calls[1].requests \o calls[2].requests,
     printed |-> UNION {calls[i].printed : i \in 1..Len(calls)}]

base_state ==
    PyDict(("gameStatus" :> "playing")
        @@ ("objective" :> "Not yet determined")
        @@ ("playerCharacter" :>
               [beingType |-> "none", location |-> "none",
                inventory |-> <<>>, statusEffects |-> <<>>])
        @@ ("characters" :> <<>>)
        @@ ("locations" :> <<>>))

\* the try block shared by initialize_game_state and update_game_state:
\* parse the matched object, or the whole response when nothing matches
extract_json(json_response) ==
    LET m == re_search(json_response.toks)
    IN  json_loads(IF m.matched THEN m.group ELSE json_response.toks)

\* a variant that gives up on a parse failure instead of returning base_state
initialize_game_state_no_default(scenario, model, env) ==
    LET r == call_llm(model, env)
    IN  IF r.exc # "none"
        THEN Outcome(None, r.exc, "not tried", <<r>>)
        ELSE IF ~IsStr(r.ret)
        THEN Outcome(None, "TypeError", "not tried", <<r>>)
        ELSE LET parsed == extract_json(r.ret)
             IN  IF parsed.ok
                 THEN Outcome(parsed.val, "none", "parsed", <<r>>)
                 ELSE Outcome(PyDict(<<>>), "none", "JSONDecodeError", <<r>>)

initialize_game_state(scenario, model, env) ==
    LET r == call_llm(model, env)
    IN  IF r.exc # "none"
        THEN Outcome(None, r.exc, "not tried", <<r>>)
        ELSE IF ~IsStr(r.ret)
        THEN \* re.search on None: TypeError, which the except clause does not name
             Outcome(None, "TypeError", "not tried", <<r>>)
        ELSE LET parsed == extract_json(r.ret)
             IN  IF parsed.ok
                 THEN Outcome(parsed.val, "none", "parsed", <<r>>)
                 ELSE Outcome(base_state, "none", "JSONDecodeError", <<r>>)

----------------------------------------------------------------------------
(* The state reconciler *)

\* a variant that starts over from base_state when the gateway returns None
update_game_state_resets(current_state, player_request, narrator_response, model, env) ==
    LET r == call_llm(model, env)
    IN  IF r.exc # "none"
        THEN Outcome(None, r.exc, "not tried", <<r>>)
        ELSE IF r.ret = None
        THEN Outcome(base_state, "none", "not tried", <<r>>)
        ELSE LET parsed == extract_json(r.ret)
             IN  IF parsed.ok
                 THEN Outcome(parsed.val, "none", "parsed", <<r>>)
                 ELSE Outcome(current_state, "none", "JSONDecodeError", <<r>>)

\* a variant that asks the gateway a second time after a parse failure
update_game_state_retries(current_state, player_request, narrator_response, model, env) ==
    LET r == call_llm(model, env)
    IN  IF r.exc # "none"
        THEN Outcome(None, r.exc, "not tried", <<r>>)
        ELSE IF r.ret = None
        THEN Outcome(current_state, "none", "not tried", <<r>>)
        ELSE LET parsed == extract_json(r.ret)
             IN  IF parsed.ok
                 THEN Outcome(parsed.val, "none", "parsed", <<r>>)
                 ELSE LET r2 == call_llm(r.model, env)
                      IN  Outcome(current_state, "none", "JSONDecodeError", <<r, r2>>)

update_game_state(current_state, player_request, narrator_response, model, env) ==
    LET r == call_llm(model, env)
    IN  IF r.exc # "none"
        THEN Outcome(None, r.exc, "not tried", <<r>>)
        ELSE IF r.ret = None
        THEN Outcome(current_state, "none", "not tried",
                     <<[r EXCEPT !.printed =
                           @ \cup {"LLM returned None, using previous game state."}]>>)
        ELSE LET parsed == extract_json(r.ret)
             IN  IF parsed.ok
                 THEN Outcome(parsed.val, "none", "parsed", <<r>>)
                 ELSE Outcome(current_state, "none", "JSONDecodeError", <<r>>)

----------------------------------------------------------------------------
(* The narration service *)

GameOverText(game_status) == PyStr(<<[k |-> "The game is over", status |-> game_status]>>)

NoCall(model) ==
    [ret |-> None, exc |-> "none", model |-> model, requests |-> <<>>, printed |-> {}]

\* a variant without the game-over branch
get_narrator_response_always_asks(current_state, player_action, last_response, model, env) ==
    IF ~IsDict(current_state)
    THEN [Outcome(None, "AttributeError", "not tried", <<NoCall(model)>>)
             EXCEPT !.llm_calls = 0]
    ELSE LET r == call_llm(model, env)
         IN  Outcome(r.ret, r.exc, "not tried", <<r>>)

get_narrator_response(current_state, player_action, last_response, model, env) ==
    IF ~IsDict(current_state)
    THEN \* current_state.get on a value that is no dict
         [Outcome(None, "AttributeError", "not tried", <<NoCall(model)>>)
             EXCEPT !.llm_calls = 0]
    ELSE LET game_status == Get(current_state, "gameStatus", "playing")
         IN  IF game_status \in {"win", "lose"}
             THEN [Outcome(GameOverText(game_status), "none", "not tried",
                           <<NoCall(model)>>) EXCEPT !.llm_calls = 0]
             ELSE LET r == call_llm(model, env)
                  IN  Outcome(r.ret, r.exc, "not tried", <<r>>)

\* an object as a holder sees it: whose it is and what it holds
CallerRef(state) == [owner |-> "caller", val |-> state]

\* a variant that hands back the object it was given
deepcopy_aliases(ref) == ref

\* copy.deepcopy: a new object of equal value
deepcopy(ref) == [owner |-> "copy", val |-> ref.val]

\* del clean_state["playerCharacter"]["possibleActions"], if both are there
del_possibleActions(ref) ==
    IF "playerCharacter" \in DOMAIN ref.val.d
       /\ "possibleActions" \in DOMAIN ref.val.d["playerCharacter"]
    THEN [ref EXCEPT !.val.d["playerCharacter"] =
             [f \in DOMAIN @ \ {"possibleActions"} |-> @[f]]]
    ELSE ref

\* the caller's state object once get_narrator_response is through: the
\* deletion reaches it only if clean_state is the caller's own object
narrator_leaves(current_state) ==
    IF ~IsDict(current_state)
       \/ Get(current_state, "gameStatus", "playing") \in {"win", "lose"}
    THEN current_state
    ELSE LET clean_state == del_possibleActions(deepcopy(CallerRef(current_state)))
         IN  IF clean_state.owner = "caller" THEN clean_state.val
             ELSE current_state

\* generate_scenario: one gateway call, its text handed back as it is
generate_scenario(model, env) ==
    LET r == call_llm(model, env)
    IN  Outcome(r.ret, r.exc, "not tried", <<r>>)

----------------------------------------------------------------------------
(* The operations, called on the module's state *)

\* scenario, narration and action texts a caller passes: they only fill the
\* prompt, so each is None (the gateway failed) or some text
Narrations == {None, PyStr(<<W>>)}
\* (player_action, narration) pairs of a turn
TurnInputs == {<<"look around", None>>, <<"take the acorn", PyStr(<<W>>)>>}

Called(op, current_state, o) ==
    [op |-> op, model_before |-> args_model,
     current_state |-> current_state, ret |-> o.ret, exc |-> o.exc,
     parse |-> o.parse, llm_calls |-> o.llm_calls,
     json_response |-> o.json_response, requests |-> o.requests,
     printed |-> o.printed, state_after |-> current_state]

\* no file yet
Absent == [t |-> "absent"]
File(toks) == [t |-> "file", toks |-> toks]

\* the module after its start with the default flags (no --debug), before any
\* snapshot was written
Init ==
    /\ args_model \in {"local", "gemini"}
    /\ game_state = Unset
    /\ call = [op |-> "none"]
    /\ DEBUG = FALSE
    /\ main_last_response = Unset
    /\ snapshot = Absent
    /\ last_saved = Unset
    /\ selected_index = 0

GenerateScenario ==
    \E env \in Envs(args_model, ProseTexts) :
        LET o == generate_scenario(args_model, env)
        IN  /\ call' = Called("generate_scenario", Unset, o)
            /\ args_model' = o.model
            /\ UNCHANGED <<game_state, session_vars>>

\* game_state = initialize_game_state(scenario), as start_game does
InitializeGameState ==
    \E scenario \in Narrations, env \in Envs(args_model, StateTexts) :
        LET o == initialize_game_state(scenario, args_model, env)
        IN  /\ call' = Called("initialize_game_state", Unset, o)
            /\ args_model' = o.model
            /\ game_state' = IF o.exc = "none" THEN o.ret ELSE game_state
            /\ UNCHANGED session_vars

GetNarratorResponse ==
    /\ game_state # Unset
    /\ \E inp \in TurnInputs, env \in Envs(args_model, ProseTexts) :
        LET o == get_narrator_response(game_state, inp[1], inp[2], args_model, env)
        IN  /\ call' = [Called("get_narrator_response", game_state, o)
                            EXCEPT !.state_after = narrator_leaves(game_state)]
            /\ args_model' = o.model
            /\ game_state' = narrator_leaves(game_state)
            /\ UNCHANGED session_vars

\* game_state = update_game_state(game_state, player_action, narrator_response)
UpdateGameState ==
    /\ game_state # Unset
    /\ \E inp \in TurnInputs, env \in Envs(args_model, StateTexts) :
        LET o == update_game_state(game_state, inp[1], inp[2], args_model, env)
        IN  /\ call' = Called("update_game_state", game_state, o)
            /\ args_model' = o.model
            /\ game_state' = IF o.exc = "none" THEN o.ret ELSE game_state
            /\ UNCHANGED session_vars

Next ==
    \/ GenerateScenario
    \/ InitializeGameState
    \/ GetNarratorResponse
    \/ UpdateGameState

Spec == Init /\ [][Next]_vars

----------------------------------------------------------------------------
(* The snapshot store *)

\* a variant that writes a dict without its members
json_dumps_keys_lost(v) == IF IsDict(v) THEN <<LB, RB>> ELSE <<NUM>>

\* json.dump(obj, f, indent=2) of a value json.loads gave: the members of a
\* dict between braces, the number for a number
json_dumps(v) ==
    IF IsDict(v)
    THEN IF DOMAIN v.d = {} THEN <<LB, RB>> ELSE <<LB, Member(v.d), RB>>
    ELSE <<NUM>>

\* open(filename, "w") succeeds and all is written; open fails and the file
\* stays as it was; open truncates the file and the write fails after the
\* first cut tokens
SaveOutcomes(text) ==
    {[kind |-> "ok", cut |-> Len(text)], [kind |-> "open_fails", cut |-> 0]}
    \cup {[kind |-> "write_fails", cut |-> c] : c \in 0..(Len(text) - 1)}

\* a variant without the try/except
save_game_state_unguarded(state, file, w) ==
    LET text == json_dumps(state)
    IN  IF w.kind = "ok"
        THEN [file |-> File(text), exc |-> "none",
              printed |-> {"Game state saved to"}]
        ELSE [file |-> IF w.kind = "open_fails" THEN file
                       ELSE File(SubSeq(text, 1, w.cut)),
              exc |-> "OSError", printed |-> {}]

save_game_state(state, file, w) ==
    LET text == json_dumps(state)
    IN  IF w.kind = "ok"
        THEN [file |-> File(text), exc |-> "none",
              printed |-> {"Game state saved to"}]
        ELSE [file |-> IF w.kind = "open_fails" THEN file
                       ELSE File(SubSeq(text, 1, w.cut)),
              exc |-> "none", printed |-> {"Error saving game state"}]

\* the read succeeds or fails with an error other than FileNotFoundError
ReadOutcomes == {"ok", "read_fails"}

\* json.load(f) parses the whole file; every failure gives None
load_game_state(file, r) ==
    IF file = Absent
    THEN [ret |-> None, exc |-> "none",
          printed |-> {"No saved game state found. Starting a new game."}]
    ELSE LET parsed == json_loads(file.toks)
         IN  IF r = "ok" /\ parsed.ok
             THEN [ret |-> parsed.val, exc |-> "none",
                   printed |-> {"Game state loaded from"}]
             ELSE [ret |-> None, exc |-> "none",
                   printed |-> {"Error loading game state"}]

----------------------------------------------------------------------------
(* Output *)

\* textwrap.fill(text): None has no expandtabs
print_wrapped(text) == IF text = None THEN "AttributeError" ELSE "none"

\* speak: threading.Thread, and the module never imports threading
speak(text) == "NameError"

----------------------------------------------------------------------------
(* The blocks of main() *)

\* the state texts of the session-level specifications: a complete state that
\* plays, one that is won, the empty object, a number, prose
SessionTexts ==
    {FullObject("playing", 0), FullObject("win", 0), ObjectText(<<>>),
     <<NUM>>, <<W>>}

\* bool(v) as "if game_state:" takes it
Truthy(v) ==
    CASE IsDict(v) -> DOMAIN v.d # {}
      [] IsStr(v) -> v.toks # <<>>
      [] v = None -> FALSE
      [] OTHER -> v.v # 0

\* start_game, s the outcome of its generate_scenario() and i the outcome of
\* its initialize_game_state(scenario): the scenario printed and spoken.
\* exc names the exception that leaves it, at names the call that raised.
start_game(s, i) ==
    IF s.exc # "none"
    THEN [exc |-> s.exc, at |-> "generate_scenario", scenario |-> Unset,
          state |-> Unset, model |-> s.model, llm_calls |-> s.llm_calls]
    ELSE IF i.exc # "none"
    THEN [exc |-> i.exc, at |-> "initialize_game_state", scenario |-> s.ret,
          state |-> Unset, model |-> i.model,
          llm_calls |-> s.llm_calls + i.llm_calls]
    ELSE IF print_wrapped(s.ret) # "none"
    THEN [exc |-> print_wrapped(s.ret), at |-> "print_wrapped",
          scenario |-> s.ret, state |-> i.ret, model |-> i.model,
          llm_calls |-> s.llm_calls + i.llm_calls]
    ELSE IF speak(s.ret) # "none"
    THEN [exc |-> speak(s.ret), at |-> "speak",
          scenario |-> s.ret, state |-> i.ret, model |-> i.model,
          llm_calls |-> s.llm_calls + i.llm_calls]
    ELSE [exc |-> "none", at |-> "nothing",
          scenario |-> s.ret, state |-> i.ret, model |-> i.model,
          llm_calls |-> s.llm_calls + i.llm_calls]

Restored == PyStr(<<[k |-> "Game restored from saved state."]>>)

\* "Initialize the game" of main(), args.restore naming game_state.json or
\* not given, l the outcome of load_game_state and g that of start_game():
\* the loaded state if it is truthy, start_game() otherwise
start_up(l, model, g) ==
    IF Truthy(l.ret)
    THEN [exc |-> "none", at |-> "nothing", loaded |-> l.ret,
          started |-> FALSE, game_state |-> l.ret,
          last_response |-> Restored, model |-> model, llm_calls |-> 0]
    ELSE [exc |-> g.exc, at |-> g.at, loaded |-> l.ret, started |-> TRUE,
          game_state |-> IF g.exc = "none" THEN g.state ELSE Unset,
          last_response |-> IF g.exc = "none" THEN g.scenario ELSE Unset,
          model |-> g.model, llm_calls |-> g.llm_calls]

\* initialize_game_state, the backend answering with a session text
InitializeSession ==
    \E scenario \in Narrations, env \in Envs(args_model, SessionTexts) :
        LET o == initialize_game_state(scenario, args_model, env)
        IN  /\ call' = Called("initialize_game_state", Unset, o)
            /\ args_model' = o.model
            /\ game_state' = IF o.exc = "none" THEN o.ret ELSE game_state
            /\ UNCHANGED session_vars

\* save_game_state(game_state)
SaveGameState ==
    /\ game_state # Unset
    /\ \E w \in SaveOutcomes(json_dumps(game_state)) :
        LET o == save_game_state(game_state, snapshot, w)
        IN  /\ call' = [op |-> "save_game_state", state |-> game_state,
                        last_response |-> main_last_response,
                        before |-> snapshot, outcome |-> w.kind,
                        exc |-> o.exc, printed |-> o.printed]
            /\ snapshot' = o.file
            /\ last_saved' = CASE w.kind = "ok" /\ o.exc = "none" -> game_state
                               [] w.kind = "open_fails" -> last_saved
                               [] OTHER -> Unset
            /\ UNCHANGED <<args_model, game_state, DEBUG, main_last_response,
                           selected_index>>

\* load_game_state(), its result looked at and dropped
LoadGameState ==
    \E r \in ReadOutcomes :
        LET o == load_game_state(snapshot, r)
        IN  /\ call' = [op |-> "load_game_state", file |-> snapshot,
                        read |-> r, ret |-> o.ret, exc |-> o.exc,
                        printed |-> o.printed]
            /\ UNCHANGED <<args_model, game_state, session_vars>>

\* start_game() was not reached
NotCalled ==
    [exc |-> "none", at |-> "nothing", scenario |-> Unset, state |-> Unset,
     model |-> "none", llm_calls |-> 0]

StartedAs(o, r) ==
    /\ call' = [op |-> "start_up", file |-> snapshot, read |-> r,
                loaded |-> o.loaded, started |-> o.started,
                exc |-> o.exc, at |-> o.at, llm_calls |-> o.llm_calls]
    /\ game_state' = o.game_state
    /\ main_last_response' = o.last_response
    /\ args_model' = o.model
    /\ UNCHANGED <<DEBUG, snapshot, last_saved, selected_index>>

\* a process starts on the file as it is: nothing of an earlier process's
\* memory is left, and nothing is left of this one when an exception ends it
Startup ==
    \E r \in ReadOutcomes :
      \E l \in {load_game_state(snapshot, r)} :
        IF Truthy(l.ret)
        THEN StartedAs(start_up(l, args_model, NotCalled), r)
        ELSE \E env_s \in Envs(args_model, ProseTexts) :
               \E s \in {generate_scenario(args_model, env_s)} :
                 \E env_i \in Envs(s.model, SessionTexts) :
                   \E i \in {initialize_game_state(s.ret, s.model, env_i)} :
                     StartedAs(start_up(l, args_model, start_game(s, i)), r)

NextStore ==
    \/ InitializeSession
    \/ SaveGameState
    \/ LoadGameState
    \/ Startup

SpecStore == Init /\ [][NextStore]_vars

----------------------------------------------------------------------------
(* One iteration of the loop of main() *)

\* input() at the end of the input raises EOFError
EndOfInput == "^D"

\* what the player enters
PlayerInputs ==
    {"quit", "EXIT", "q", "Debug", "Restart", "look around", EndOfInput}

\* a variant that compares the input as it was typed
lower_keeps_case(text) == text

\* str.lower() on the inputs above
lower(text) ==
    CASE text = "EXIT" -> "exit"
      [] text = "Debug" -> "debug"
      [] text = "Restart" -> "restart"
      [] OTHER -> text

toggle_debug(debug) == ~debug

\* the way an iteration takes: game_state.get(...) on a value that is no dict
\* raises before the prompt, then the input decides
turn_route(state, player_action) ==
    IF ~IsDict(state) THEN "possible_actions raises"
    ELSE IF player_action = EndOfInput THEN "input raises"
    ELSE IF lower(player_action) \in {"quit", "exit", "q"} THEN "quit"
    ELSE IF lower(player_action) = "debug" THEN "debug"
    ELSE IF lower(player_action) = "restart" THEN "restart"
    ELSE "narrate"

\* the locals and globals of main() in an iteration that has done nothing
\* yet; exc names the exception that leaves main(), at the call that raised,
\* ended the break, steps the operations called
turn_begin(state, last, debug, file, model, player_action) ==
    [exc |-> "none", at |-> "nothing", ended |-> FALSE,
     player_action |-> player_action, game_state |-> state,
     last_response |-> last, DEBUG |-> debug, snapshot |-> file,
     model |-> model, steps |-> <<>>, narration |-> Unset,
     saved |-> "not reached"]

\* lines 809-870: the display raises, input() raises, quit, debug
turn_head(m, way) ==
    CASE way = "possible_actions raises" ->
            [m EXCEPT !.exc = "AttributeError", !.at = "possible_actions",
                      !.player_action = "not read"]
      [] way = "input raises" -> [m EXCEPT !.exc = "EOFError", !.at = "input"]
      [] way = "quit" -> [m EXCEPT !.ended = TRUE]
      [] OTHER -> [m EXCEPT !.DEBUG = toggle_debug(@),
                            !.steps = <<"toggle_debug">>]

\* lines 872-875: last_response, game_state = start_game(), g its outcome
turn_restart(m, g) ==
    IF g.exc # "none"
    THEN [m EXCEPT !.exc = g.exc, !.at = g.at, !.model = g.model,
                   !.steps = <<"start_game">>]
    ELSE [m EXCEPT !.game_state = g.state, !.last_response = g.scenario,
                   !.model = g.model, !.steps = <<"start_game">>]

\* lines 877-886: the narration n asked for, printed and spoken
turn_narrate(m, n) ==
    LET t == [m EXCEPT !.model = n.model, !.steps = <<"get_narrator_response">>,
                       !.game_state = narrator_leaves(@)]
    IN  IF n.exc # "none"
        THEN [t EXCEPT !.exc = n.exc, !.at = "get_narrator_response"]
        ELSE IF print_wrapped(n.ret) # "none"
        THEN [t EXCEPT !.exc = print_wrapped(n.ret), !.at = "print_wrapped",
                       !.narration = n.ret]
        ELSE IF speak(n.ret) # "none"
        THEN [t EXCEPT !.exc = speak(n.ret), !.at = "speak",
                       !.narration = n.ret]
        ELSE [t EXCEPT !.narration = n.ret]

\* lines 888-893: the state reconciled (u the outcome of update_game_state),
\* the narration kept, the state saved with the write going as w
turn_reconcile(t, u, w) ==
    IF u.exc # "none"
    THEN [t EXCEPT !.exc = u.exc, !.at = "update_game_state",
                   !.model = u.model, !.steps = @ \o <<"update_game_state">>]
    ELSE [t EXCEPT !.game_state = u.ret,
                   !.last_response = t.narration,
                   !.model = u.model,
                   !.snapshot = save_game_state(u.ret, t.snapshot, w).file,
                   !.saved = w.kind,
                   !.steps = @ \o <<"update_game_state", "save_game_state">>]

\* the iteration went as o says; an exception or the break ends the process
\* and nothing of its memory is left
TurnedAs(o) ==
    /\ call' = [op |-> "turn", player_action |-> o.player_action,
                state |-> game_state, last_response |-> main_last_response,
                debug |-> DEBUG, file |-> snapshot,
                exc |-> o.exc, at |-> o.at, ended |-> o.ended,
                steps |-> o.steps, narration |-> o.narration,
                saved |-> o.saved, new_state |-> o.game_state,
                new_last_response |-> o.last_response]
    /\ game_state' = IF o.exc # "none" \/ o.ended THEN Unset ELSE o.game_state
    /\ main_last_response' =
           IF o.exc # "none" \/ o.ended THEN Unset ELSE o.last_response
    /\ DEBUG' = o.DEBUG
    /\ snapshot' = o.snapshot
    /\ last_saved' = CASE o.saved = "ok" -> o.game_state
                       [] o.saved = "write_fails" -> Unset
                       [] OTHER -> last_saved
    /\ args_model' = o.model
    /\ UNCHANGED selected_index

\* the loop runs once the start-up block has set last_response
Turn ==
    /\ main_last_response # Unset
    /\ \E player_action \in PlayerInputs :
         \E m \in {turn_begin(game_state, main_last_response, DEBUG, snapshot,
                              args_model, player_action)},
            way \in {turn_route(game_state, player_action)} :
           IF way \notin {"restart", "narrate"}
           THEN TurnedAs(turn_head(m, way))
           ELSE IF way = "restart"
           THEN \E env_s \in Envs(args_model, ProseTexts) :
                  \E s \in {generate_scenario(args_model, env_s)} :
                    \E env_i \in Envs(s.model, SessionTexts) :
                      \E i \in {initialize_game_state(s.ret, s.model, env_i)} :
                        TurnedAs(turn_restart(m, start_game(s, i)))
           ELSE \E env_n \in Envs(args_model, ProseTexts) :
                  \E n \in {get_narrator_response(game_state, player_action,
                                main_last_response, args_model, env_n)} :
                    \E t \in {turn_narrate(m, n)} :
                      IF t.exc # "none"
                      THEN TurnedAs(t)
                      ELSE \E env_u \in Envs(t.model, SessionTexts) :
                             \E u \in {update_game_state(game_state,
                                           player_action, t.narration,
                                           t.model, env_u)} :
                               \E w \in SaveOutcomes(json_dumps(
                                           IF u.exc = "none" THEN u.ret
                                           ELSE game_state)) :
                                 TurnedAs(turn_reconcile(t, u, w))

NextSession ==
    \/ InitializeSession
    \/ SaveGameState
    \/ Startup
    \/ Turn

SpecSession == Init /\ [][NextSession]_vars

----------------------------------------------------------------------------
(* The controller *)

\* the lists of possible actions a state may hold: none to four entries
AllActions == <<"look around", "dig", "climb", "swim">>
ActionLists == {SubSeq(AllActions, 1, n) : n \in 0..Len(AllActions)}

\* the members of RestMember, possibleActions being l
ActionsMember(l) ==
    Member([x \in DOMAIN RestMember.kv |->
               IF x = "playerCharacter"
               THEN [RestMember.kv[x] EXCEPT !.possibleActions = l]
               ELSE RestMember.kv[x]])

ControllerTexts ==
    {ObjectText(<<StatusMember("playing"), ClockMember(0), ActionsMember(l)>>) :
        l \in ActionLists}

\* get_axis in hundredths: pushed one way, at rest, pushed the other way
AxisValues == {-100, 0, 100}
Sticks == [x : AxisValues, y : AxisValues]

\* the one control that is pressed: a button, a trigger, or none
Pressed == {"none", "A", "B", "X", "Y", "Start", "RT", "LT"}

\* a str the controller code returns
PyText(text) == [t |-> "text", text |-> text]

\* game_state.get("playerCharacter", {}).get("possibleActions", [])
possible_actions_of(state) ==
    IF "playerCharacter" \in DOMAIN state.d
       /\ "possibleActions" \in DOMAIN state.d["playerCharacter"]
    THEN state.d["playerCharacter"].possibleActions
    ELSE <<>>

\* the index the stick points at, None for none
get_selected_action(possible_actions, stick) ==
    IF possible_actions = <<>> THEN None
    ELSE IF Len(possible_actions) <= 1 THEN PyInt(0)
    ELSE IF Len(possible_actions) = 2
    THEN IF stick.x < -25 THEN PyInt(0)
         ELSE IF stick.x > 25 THEN PyInt(1)
         ELSE None
    ELSE IF stick.x < -25 /\ stick.y < -25 THEN PyInt(0)
         ELSE IF stick.x > 25 /\ stick.y < -25 THEN PyInt(1)
         ELSE IF stick.x < -25 /\ stick.y > 25 THEN PyInt(2)
         ELSE IF stick.x > 25 /\ stick.y > 25 /\ Len(possible_actions) > 3
         THEN PyInt(3)
         ELSE None

\* handle_controller_input(controller, game_state) with a controller: a
\* selection is stored, shown and spoken, and None returned; without one the
\* pressed control decides
handle_controller_input(state, selected, stick, pressed) ==
    IF ~IsDict(state)
    THEN [ret |-> None, exc |-> "AttributeError", selected_index |-> selected]
    ELSE LET possible_actions == possible_actions_of(state)
             possible_selected_index == get_selected_action(possible_actions, stick)
         IN  IF possible_selected_index # None
             THEN [ret |-> None,
                   exc |-> speak(possible_actions[possible_selected_index.v + 1]),
                   selected_index |-> possible_selected_index.v]
             ELSE [ret |-> CASE pressed = "A" ->
                                  IF selected < Len(possible_actions)
                                  THEN PyText(possible_actions[selected + 1])
                                  ELSE None
                             [] pressed = "B" -> PyText("try something else")
                             [] pressed = "X" -> PyText("look around")
                             [] pressed = "Y" -> PyText("check inventory")
                             [] pressed = "Start" -> PyText("what is my objective")
                             [] pressed = "RT" -> PyText("attack")
                             [] pressed = "LT" -> PyText("defend")
                             [] OTHER -> None,
                   exc |-> "none", selected_index |-> selected]

\* initialize_game_state, the backend answering with a list of actions
InitializeController ==
    \E scenario \in Narrations, env \in Envs(args_model, ControllerTexts) :
        LET o == initialize_game_state(scenario, args_model, env)
        IN  /\ call' = Called("initialize_game_state", Unset, o)
            /\ args_model' = o.model
            /\ game_state' = IF o.exc = "none" THEN o.ret ELSE game_state
            /\ UNCHANGED session_vars

\* handle_controller_input(controller, game_state) in the input loop; an
\* exception ends the process, and the next one starts with selected_index 0
HandleControllerInput ==
    /\ game_state # Unset
    /\ \E stick \in Sticks, pressed \in Pressed :
         \E o \in {handle_controller_input(game_state, selected_index, stick,
                                           pressed)} :
            /\ call' = [op |-> "handle_controller_input", state |-> game_state,
                        selected |-> selected_index, stick |-> stick,
                        pressed |-> pressed, ret |-> o.ret, exc |-> o.exc]
            /\ selected_index' = IF o.exc # "none" THEN 0 ELSE o.selected_index
            /\ UNCHANGED <<args_model, game_state, DEBUG, main_last_response,
                           snapshot, last_saved>>

NextController ==
    \/ InitializeController
    \/ HandleControllerInput

SpecController == Init /\ [][NextController]_vars


----------------------------------------------------------------------------
(* What the claims speak of *)

\* the keys STATE_SPEC gives a world state, gameStatus within its three values
RequiredKeys ==
    {"gameStatus", "date", "time", "objective", "playerCharacter",
     "characters", "locations"}

SatisfiesSchema(v) ==
    /\ IsDict(v)
    /\ RequiredKeys \subseteq DOMAIN v.d
    /\ v.d["gameStatus"] \in StatusEnum

\* the status as get_narrator_response and check_game_over read it
Status(v) == IF IsDict(v) THEN Get(v, "gameStatus", "playing") ELSE "no state"

HasClock(v) == IsDict(v) /\ {"date", "time"} \subseteq DOMAIN v.d

\* the clock of new is strictly later than the clock of old
ClockLater(new, old) ==
    \/ new.d["date"] > old.d["date"]
    \/ new.d["date"] = old.d["date"] /\ new.d["time"] > old.d["time"]

Reconciled == call.op = "update_game_state"
Extracted == call.op = "initialize_game_state"
\* the gateway handed a value back to the operation (text or None)
GatewayReturned == call.exc \notin {"KeyError", "ValueError"}

----------------------------------------------------------------------------
(* C1: if the gateway returns None for the reconciliation call,             *)
(* update_game_state returns the current state itself: no field of it has   *)
(* changed, and the caller holds the state it held before.                  *)
C1_NoneKeepsState ==
    (Reconciled /\ call.exc = "none" /\ call.json_response = None)
        => /\ call.ret = call.current_state
           /\ game_state = call.current_state

\* reached: a gateway failure while the caller holds a state other than the default
C1_Witness ==
    /\ Reconciled /\ call.exc = "none" /\ call.json_response = None
    /\ SatisfiesSchema(call.current_state)
    /\ Status(call.current_state) = "win"

(* C2: when the reconciliation response does not parse, update_game_state   *)
(* has made exactly one gateway call and returns the current state.         *)
C2_ParseFailureNotRetried ==
    (Reconciled /\ call.parse = "JSONDecodeError")
        => /\ call.llm_calls = 1
           /\ Len(call.requests) <= 2
           /\ call.exc = "none"
           /\ call.ret = call.current_state
           /\ game_state = call.current_state

\* reached: text with two objects in it does not parse and the state is kept
C2_Witness ==
    /\ Reconciled /\ call.parse = "JSONDecodeError"
    /\ call.json_response = PyStr(FullObject("win", 0) \o <<W>> \o ObjectText(<<>>))
    /\ SatisfiesSchema(call.current_state)

(* C3, as claimed: update_game_state falls back to the current state on a   *)
(* gateway failure only after three attempts.                               *)
C3_ThreeAttempts ==
    (Reconciled /\ call.exc = "none" /\ call.json_response = None)
        => call.llm_calls = 3

(* C4, as claimed: through reconciliation the status goes from playing only *)
(* to playing, win or lose, and a status of win or lose stays as it is      *)
(* until initialization runs again (stated for reconciliations between      *)
(* states that satisfy the schema).                                         *)
AllowedStatusSteps ==
    {<<"playing", s>> : s \in StatusEnum} \cup {<<"win", "win">>, <<"lose", "lose">>}

C4_StatusTransitions ==
    [][(call'.op = "update_game_state" /\ SatisfiesSchema(game_state)
           /\ SatisfiesSchema(game_state'))
          => <<Status(game_state), Status(game_state')>> \in AllowedStatusSteps]_vars

(* C5, as claimed: a reconciliation that adopts a parsed state yields a     *)
(* clock strictly later than the clock of the state before (stated for      *)
(* states that carry a clock: both satisfy the schema).                     *)
C5_ClockAdvances ==
    (Reconciled /\ call.exc = "none" /\ call.parse = "parsed"
        /\ SatisfiesSchema(call.current_state) /\ SatisfiesSchema(game_state))
        => ClockLater(game_state, call.current_state)

(* C6, as claimed: the value of a reconciliation is adopted only if it      *)
(* parses and satisfies the schema; otherwise the previous state is kept.   *)
C6_AdoptsOnlyValidStates ==
    (Reconciled /\ call.exc = "none" /\ SatisfiesSchema(call.current_state))
        => IF call.parse = "parsed" /\ SatisfiesSchema(call.ret)
           THEN game_state = call.ret
           ELSE game_state = call.current_state

(* C7, as claimed: whatever the gateway hands back to                       *)
(* initialize_game_state (JSON, text that does not parse, or None), it      *)
(* returns a world state and raises no exception.                           *)
C7_InitializationNeverRaises ==
    (Extracted /\ GatewayReturned)
        => call.exc = "none" /\ IsDict(call.ret)

(* C8: when the extractor's response does not parse,                        *)
(* initialize_game_state returns the minimal default state: status playing, *)
(* objective "Not yet determined", a player of type and location "none"     *)
(* with empty inventory and status effects, no characters, no locations,    *)
(* and nothing else.                                                        *)
C8_DefaultOnParseFailure ==
    (Extracted /\ call.parse = "JSONDecodeError")
        => /\ call.exc = "none"
           /\ IsDict(call.ret)
           /\ DOMAIN call.ret.d =
                 {"gameStatus", "objective", "playerCharacter", "characters",
                  "locations"}
           /\ call.ret.d["gameStatus"] = "playing"
           /\ call.ret.d["objective"] = "Not yet determined"
           /\ call.ret.d["playerCharacter"] =
                 [beingType |-> "none", location |-> "none",
                  inventory |-> <<>>, statusEffects |-> <<>>]
           /\ call.ret.d["characters"] = <<>>
           /\ call.ret.d["locations"] = <<>>
           /\ game_state = call.ret

\* reached: a response of braces around prose, after which the default is held
C8_Witness ==
    /\ Extracted /\ call.parse = "JSONDecodeError"
    /\ call.json_response = PyStr(<<LB, W, RB>>)
    /\ Status(game_state) = "playing"

(* C9, as claimed: once a call to the remote backend has failed, no later   *)
(* call contacts it; the call in which it fails is answered by the local    *)
(* backend, prints the fallback warning, and raises no exception.           *)
C9_PersistentFailover ==
    call.op # "none"
        => /\ call.model_before = "local"
                => /\ args_model = "local"
                   /\ \A i \in 1..Len(call.requests) :
                          call.requests[i].backend = "local"
           /\ (\E i \in 1..Len(call.requests) :
                  /\ call.requests[i].backend = "gemini"
                  /\ call.requests[i].kind # "ok")
                => /\ args_model = "local"
                   /\ call.requests[Len(call.requests)].backend = "local"
                   /\ "Gemini API failed, falling back to local model."
                          \in call.printed
                   /\ call.exc = "none"

(* C10, as claimed: every outcome of a request to the local backend other   *)
(* than 200 with the expected body gives the failure value None and no      *)
(* exception.                                                               *)
C10_LocalFailureIsNone ==
    (call.op # "none"
        /\ \E i \in 1..Len(call.requests) :
              /\ call.requests[i].backend = "local"
              /\ call.requests[i].kind # "ok")
        => call.exc = "none" /\ call.json_response = None

(* C11: with a status of win or lose, get_narrator_response returns the     *)
(* fixed game-over message and makes no gateway call; with any other or no  *)
(* status it makes exactly one gateway call.                                *)
C11_GameOverShortCircuit ==
    (call.op = "get_narrator_response" /\ IsDict(call.current_state))
        => IF Status(call.current_state) \in {"win", "lose"}
           THEN /\ call.llm_calls = 0
                /\ call.requests = <<>>
                /\ call.exc = "none"
                /\ call.ret = PyStr(<<[k |-> "The game is over",
                                       status |-> Status(call.current_state)]>>)
                /\ args_model = call.model_before
           ELSE /\ call.llm_calls = 1
                /\ Len(call.requests) \in {1, 2}

\* reached: narration asked for a complete state whose status is lose
C11_Witness ==
    /\ call.op = "get_narrator_response"
    /\ SatisfiesSchema(call.current_state)
    /\ Status(call.current_state) = "lose"
    /\ call.llm_calls = 0

\* reached: narration asked for a state without gameStatus, one gateway call
C11_WitnessPlaying ==
    /\ call.op = "get_narrator_response"
    /\ IsDict(call.current_state)
    /\ "gameStatus" \notin DOMAIN call.current_state.d
    /\ call.llm_calls = 1

(* C20, as claimed: after every reconciliation the names of the items in    *)
(* the player's inventory are pairwise distinct.                            *)
DistinctNames(inventory) ==
    \A i, j \in 1..Len(inventory) :
        inventory[i].name = inventory[j].name => i = j

C20_InventoryNamesUnique ==
    (Reconciled /\ call.exc = "none" /\ SatisfiesSchema(game_state))
        => DistinctNames(game_state.d["playerCharacter"].inventory)

(* C14: when save_game_state fails (the file cannot be opened, or the write *)
(* breaks off), the error is printed, no exception leaves the function, and *)
(* the state in memory and the last narration are what they were.           *)
C14_SaveFailureDoesNotRaise ==
    (call.op = "save_game_state" /\ call.outcome # "ok")
        => /\ call.exc = "none"
           /\ "Error saving game state" \in call.printed
           /\ game_state = call.state
           /\ main_last_response = call.last_response

C14_Witness ==
    /\ call.op = "save_game_state"
    /\ call.outcome = "write_fails"
    /\ SatisfiesSchema(game_state)
    /\ snapshot # call.before

(* C15: load_game_state on the file a completed save_game_state(s) wrote,   *)
(* nothing written in between and the read succeeding, returns a value      *)
(* equal to s; the same holds for the load of the start-up block.           *)
C15_RoundTrip ==
    /\ (call.op = "load_game_state" /\ call.read = "ok" /\ last_saved # Unset)
            => call.ret = last_saved
    /\ (call.op = "start_up" /\ call.read = "ok" /\ last_saved # Unset)
            => call.loaded = last_saved

C15_Witness ==
    /\ call.op = "load_game_state"
    /\ call.read = "ok"
    /\ SatisfiesSchema(last_saved)
    /\ call.ret = last_saved

(* C16: at start-up, a file that holds a persisted state makes the session  *)
(* resume with exactly that state and without any initialization; without a *)
(* file load_game_state returns None and a new session is started through   *)
(* scenario generation and initialization.                                  *)
C16_StartupResumesOrStarts ==
    call.op = "start_up"
        => /\ (call.read = "ok" /\ last_saved # Unset)
                => /\ game_state = last_saved
                   /\ ~call.started
                   /\ call.llm_calls = 0
           /\ call.file = Absent
                => /\ call.loaded = None
                   /\ call.started
                   /\ call.exc = "none"
                   /\ game_state # Unset

\* the operations an iteration called
StepsOf(c) == {c.steps[i] : i \in 1..Len(c.steps)}

(* C12: a turn in which the gateway fails during narration (it returns None *)
(* or raises) completes: no exception leaves the loop, the session goes on, *)
(* and the state is the one from before the turn or a state that satisfies  *)
(* STATE_SPEC.                                                              *)
C12_BackendFailureNotFatal ==
    (call.op = "turn"
        /\ (call.narration = None \/ call.at = "get_narrator_response"))
        => /\ call.exc = "none"
           /\ ~call.ended
           /\ (call.new_state = call.state \/ SatisfiesSchema(call.new_state))

(* C13: an exception raised in a turn is caught and a snapshot of the state *)
(* is written before the session ends.                                      *)
C13_ExceptionWritesSnapshot ==
    (call.op = "turn" /\ call.at # "nothing")
        => /\ call.exc = "none"
           /\ "save_game_state" \in StepsOf(call)
           /\ call.saved # "not reached"

(* C17: quit, exit, q, restart and debug, in any case, never reach          *)
(* get_narrator_response or update_game_state; quit, exit and q end the     *)
(* session; debug flips DEBUG and leaves the state, the last narration and  *)
(* the snapshot as they were; of the reserved inputs only restart may       *)
(* replace the state.                                                       *)
C17_ReservedInputsIntercepted ==
    call.op = "turn" =>
        /\ call.player_action \in {"quit", "EXIT", "q", "Debug", "Restart"}
             => StepsOf(call) \cap {"get_narrator_response", "update_game_state"} = {}
        /\ call.player_action \in {"quit", "EXIT", "q"}
             => call.ended /\ call.exc = "none" /\ call.steps = <<>>
        /\ call.player_action = "Debug"
             => /\ DEBUG = ~call.debug
                /\ call.exc = "none" /\ ~call.ended
                /\ game_state = call.state
                /\ main_last_response = call.last_response
                /\ snapshot = call.file
        /\ call.player_action \in {"quit", "EXIT", "q", "Debug"}
             => call.new_state = call.state

C17_Witness ==
    /\ call.op = "turn"
    /\ call.player_action = "Debug"
    /\ DEBUG
    /\ SatisfiesSchema(game_state)
    /\ snapshot # Absent

(* C18: restart, typed in any state, leaves a fresh state with status       *)
(* playing: the scenario was generated, initialization ran on it, and the   *)
(* state and the last narration are the new ones.                           *)
C18_RestartGivesFreshState ==
    (call.op = "turn" /\ call.player_action = "Restart")
        => /\ call.exc = "none"
           /\ call.steps = <<"start_game">>
           /\ Status(call.new_state) = "playing"
           /\ game_state = call.new_state

(* C19: a turn on an input that is not reserved narrates, reconciles and    *)
(* persists in this order, keeps this turn's narration as the last          *)
(* narration and persists the value update_game_state returned.             *)
C19_NarrateReconcilePersist ==
    (call.op = "turn" /\ call.player_action = "look around")
        => /\ call.steps = <<"get_narrator_response", "update_game_state",
                             "save_game_state">>
           /\ call.new_last_response = call.narration
           /\ (call.saved = "ok" => snapshot = File(json_dumps(call.new_state)))

\* the first top-level object literal of a text: from the leftmost { that
\* opens a well-formed object to the } that closes it
ObjectSpans(text) ==
    {sp \in (1..Len(text)) \X (1..Len(text)) :
        /\ sp[1] < sp[2]
        /\ text[sp[1]] = LB
        /\ text[sp[2]] = RB
        /\ \A k \in (sp[1] + 1)..(sp[2] - 1) : text[k].k = "member"}

FirstObject(text) ==
    LET first == CHOOSE sp \in ObjectSpans(text) :
                     \A other \in ObjectSpans(text) : sp[1] <= other[1]
    IN  SubSeq(text, first[1], first[2])

(* C21: initialize_game_state and update_game_state parse the first         *)
(* top-level object literal of the response, prose around it and braces     *)
(* after it notwithstanding; a response without an object literal is parsed *)
(* as a whole.                                                              *)
C21_FirstObjectParsed ==
    ((Reconciled \/ Extracted) /\ call.exc = "none" /\ IsStr(call.json_response))
        => LET text == call.json_response.toks
           IN  IF ObjectSpans(text) # {}
               THEN /\ call.parse = "parsed"
                    /\ call.ret = json_loads(FirstObject(text)).val
               ELSE IF json_loads(text).ok
               THEN call.parse = "parsed" /\ call.ret = json_loads(text).val
               ELSE call.parse = "JSONDecodeError"

\* the requests of the last call that went to one backend
RequestsTo(backend) ==
    {i \in 1..Len(call.requests) : call.requests[i].backend = backend}

(* C22: one call_llm invocation sends at most one request to the remote and *)
(* at most one to the local backend, and it sends to both only when the     *)
(* remote one failed in this invocation and args.model became "local".      *)
C22_NoGatewayRetries ==
    (call.op \in {"generate_scenario", "initialize_game_state",
                  "get_narrator_response", "update_game_state"}
        /\ call.llm_calls = 1)
        => /\ Cardinality(RequestsTo("gemini")) <= 1
           /\ Cardinality(RequestsTo("local")) <= 1
           /\ Len(call.requests) >= 1
           /\ Len(call.requests) = 2
                => /\ call.model_before = "gemini"
                   /\ args_model = "local"
                   /\ call.requests[1].backend = "gemini"
                   /\ call.requests[1].kind # "ok"

C22_Witness ==
    /\ call.op = "update_game_state"
    /\ call.llm_calls = 1
    /\ Len(call.requests) = 2
    /\ call.requests[2].kind = "timeout"

(* C23: get_narrator_response and update_game_state leave the state object  *)
(* they are given as it was, and update_game_state returns the prior value  *)
(* itself or the value it parsed from the response.                         *)
C23_InputNotMutated ==
    /\ call.op = "get_narrator_response"
            => call.state_after = call.current_state /\ game_state = call.current_state
    /\ (Reconciled /\ call.exc = "none")
            => /\ call.state_after = call.current_state
               /\ (call.ret = call.current_state \/ call.parse = "parsed")

C23_Witness ==
    /\ call.op = "get_narrator_response"
    /\ call.llm_calls = 1
    /\ SatisfiesSchema(call.current_state)
    /\ "possibleActions" \in DOMAIN call.current_state.d["playerCharacter"]
    /\ call.ret # None

FixedCommands ==
    [B |-> "try something else", X |-> "look around", Y |-> "check inventory",
     Start |-> "what is my objective", RT |-> "attack", LT |-> "defend"]

(* C25: with the stick at rest and a non-empty list of possible actions, a  *)
(* pressed button makes handle_controller_input return its action: A the    *)
(* selected entry of the list, the other controls their fixed commands.     *)
C25_ButtonsReturnActions ==
    (call.op = "handle_controller_input"
        /\ call.stick = [x |-> 0, y |-> 0]
        /\ call.pressed # "none"
        /\ IsDict(call.state)
        /\ possible_actions_of(call.state) # <<>>)
        => /\ call.exc = "none"
           /\ call.ret # None
           /\ call.pressed = "A"
                => \E i \in 1..Len(possible_actions_of(call.state)) :
                      call.ret.text = possible_actions_of(call.state)[i]
           /\ call.pressed # "A"
                => call.ret.text = FixedCommands[call.pressed]

============================================================================
